---- MODULE Spec2Model ----
(***************************************************************************)
(* CareerInn (src/app.py): the session / entitlement / usage-metering      *)
(* logic of the Flask application.  The stored tables (users,              *)
(* subscriptions, ai_usage, user_profiles, mock_interviews), the cookie    *)
(* session of one browser and the registry of scoped store sessions are    *)
(* the state.  Under Spec and SpecPremium every request handler is one     *)
(* action, handled to completion before the next request starts: Spec      *)
(* serves the account, subscription and career-chat routes, SpecPremium    *)
(* the account and subscription routes and the subscriber-only pages,      *)
(* SpecChat the career chat of one student over several turns.  Under      *)
(* SpecConc two worker threads serve requests, and a handler that reads    *)
(* and then writes a table takes a read step and a commit step.            *)
(*                                                                         *)
(* Text is a sequence of one-character strings, so that str.strip() and    *)
(* str.lower() are computed and not assumed.  Fixed page texts are         *)
(* one-element sequences holding the text.                                 *)
(***************************************************************************)
EXTENDS Integers, Sequences, FiniteSets, TLC

VARIABLES
    users,          \* table users: sequence of rows, id = position
    subscriptions,  \* table subscriptions: set of rows [id, user_id, active]
    ai_usage,       \* table ai_usage: set of rows [id, user_id, ai_used]
    user_profiles,  \* table user_profiles: set of rows [user_id, skills_text]
    session,        \* the Flask session of the browser: key -> value
    last,           \* the request handled last: what came in, what went out
    mock_interviews,\* table mock_interviews: sequence of rows, id = position
    registry,       \* SessionLocal's registry: thread -> state of its store session
    inflight        \* requests between their read and their commit: thread -> locals

vars == <<users, subscriptions, ai_usage, user_profiles, session, last,
          mock_interviews, registry, inflight>>

---------------------------------------------------------------------------
(* Bounds and input alphabets *)

\* Longest ai_history, and longest mock_ai_history, a session is let to grow to.
MaxHist == 2

\* Longest ai_history of the one browser of SpecChat.
MaxLongHist == 4

\* Most rows the mock_interviews table is let to grow to (two are seeded).
MaxMock == 3

\* The forms posted to /signup: raw "name", "email", "password" (<<>> is a field
\* left out).  Two addresses, one of them also in another letter case and padded.
SignupForms ==
    {[name |-> <<"n">>, email |-> <<"a">>,      password |-> <<"p">>],
     [name |-> <<"n">>, email |-> <<" ", "A">>, password |-> <<"p", " ">>],
     [name |-> <<"n">>, email |-> <<"b">>,      password |-> <<"p">>],
     [name |-> <<" ">>, email |-> <<"a">>,      password |-> <<"p">>],
     [name |-> <<"n">>, email |-> <<" ">>,      password |-> <<"p">>],
     [name |-> <<"n">>, email |-> <<"A">>,      password |-> <<>>]}

\* The forms posted to /login: raw "email", "password".
LoginForms ==
    {[email |-> <<"a">>,      password |-> <<"p">>],
     [email |-> <<"A", " ">>, password |-> <<" ", "p">>],
     [email |-> <<"b">>,      password |-> <<"p">>],
     [email |-> <<"a">>,      password |-> <<"w">>],
     [email |-> <<"b">>,      password |-> <<"w">>],
     [email |-> <<>>,         password |-> <<"p">>]}

\* The requests sent to /chatbot: method, the "reset" query argument, the raw
\* "message" field (<<>> is the field left out, as in every GET), and the
\* completion API as the request finds it: no GROQ_API_KEY in the environment
\* ("nokey"), or a client whose call returns a reply or raises.
ChatRequests ==
    {[method |-> "GET",  reset |-> "",  message |-> <<>>,         api |-> "reply"],
     [method |-> "GET",  reset |-> "1", message |-> <<>>,         api |-> "reply"],
     [method |-> "POST", reset |-> "",  message |-> <<"q", " ">>, api |-> "reply"],
     [method |-> "POST", reset |-> "",  message |-> <<"q", " ">>, api |-> "raise"],
     [method |-> "POST", reset |-> "",  message |-> <<"q", " ">>, api |-> "nokey"],
     [method |-> "POST", reset |-> "",  message |-> <<" ">>,      api |-> "reply"],
     [method |-> "POST", reset |-> "1", message |-> <<"q">>,      api |-> "reply"]}

Methods == {"GET", "POST"}

\* SpecChat: one student, who signs up and logs in with these forms.
ChatSignupForms == {f \in SignupForms : f.name = <<"n">> /\ f.email = <<"a">>}

ChatLoginForms == {f \in LoginForms : f.email = <<"a">> /\ f.password = <<"p">>}

\* The requests sent to /mock-interviews: method and the raw "title" field.
MockRequests ==
    {[method |-> "GET",  title |-> <<>>],
     [method |-> "POST", title |-> <<"t", " ">>],
     [method |-> "POST", title |-> <<" ">>]}

\* The requests sent to /mock-interviews/ai: as to /chatbot, without "reset".
MockAiRequests == {[method |-> r.method, message |-> r.message, api |-> r.api] :
                      r \in {c \in ChatRequests : c.reset = ""}}

\* The requests sent to /book-mentor/<mentor_id>: a seeded mentor and a missing one.
BookRequests ==
    {[method |-> "GET",  mentor_id |-> 1],
     [method |-> "POST", mentor_id |-> 1],
     [method |-> "GET",  mentor_id |-> 4]}

\* The requests sent to /forgot-password: method and the raw "email" field.
ForgotRequests ==
    {[method |-> "GET",  email |-> <<>>],
     [method |-> "POST", email |-> <<"A", " ">>],
     [method |-> "POST", email |-> <<"b">>],
     [method |-> "POST", email |-> <<>>]}

---------------------------------------------------------------------------
(* Text helpers: str.strip(), str.lower() *)

IsSpace(c) == c = " "

RECURSIVE LStrip(_)
LStrip(s) == IF s # <<>> /\ IsSpace(Head(s)) THEN LStrip(Tail(s)) ELSE s

RECURSIVE RStrip(_)
RStrip(s) ==
    IF s # <<>> /\ IsSpace(s[Len(s)]) THEN RStrip(SubSeq(s, 1, Len(s) - 1)) ELSE s

Strip(s) == RStrip(LStrip(s))

LowerChar(c) == CASE c = "A" -> "a" [] c = "B" -> "b" [] OTHER -> c

Lower(s) == [i \in 1..Len(s) |-> LowerChar(s[i])]

---------------------------------------------------------------------------
(* Session helpers: a session is a function from the keys it holds *)

EmptySession == [k \in {} |-> 0]

SessionSet(s, k, v) == [x \in DOMAIN s \cup {k} |-> IF x = k THEN v ELSE s[x]]

SessionGet(s, k, default) == IF k \in DOMAIN s THEN s[k] ELSE default

\* session.get("user_id"): 0 stands for None (ids start at 1, both are falsy)
SessionUserId(s) == SessionGet(s, "user_id", 0)

---------------------------------------------------------------------------
(* Store helpers *)

\* db.query(T).filter_by(user_id=uid)
RowsOf(table, uid) == {r \in table : r.user_id = uid}

\* lines 87, 103: the primary key of the row added next for user_id.  The store
\* picks a value that is not in use (which one depends on the backend) and no
\* handler reads it; here it is the user's id when that is free and the next
\* free value above it otherwise.
NextId(table, user_id) ==
    LET used == {r.id : r \in table}
    IN  IF user_id \notin used
        THEN user_id
        ELSE CHOOSE n \in (user_id + 1)..(user_id + Cardinality(table) + 1) :
                 /\ n \notin used
                 /\ \A m \in (user_id + 1)..(n - 1) : m \in used

\* .first() on a non-empty result
First(rows) == CHOOSE r \in rows : TRUE

\* db.query(User).filter(User.email == email): the matching positions
UsersByEmail(email) == {i \in 1..Len(users) : users[i].email = email}

\* db.add(row) when the user has no row yet, an attribute assignment otherwise
WriteKind(table, uid) == IF RowsOf(table, uid) = {} THEN "insert" ELSE "update"

\* generate_password_hash / check_password_hash (the salt is carried inside the
\* stored value and plays no part in whether a password matches)
GeneratePasswordHash(password) == <<"pbkdf2:sha256">> \o password

CheckPasswordHash(stored, password) == stored = GeneratePasswordHash(password)

user_is_subscribed(user_id) ==
    IF user_id = 0
    THEN FALSE
    ELSE LET rows == RowsOf(subscriptions, user_id)
         IN  rows # {} /\ First(rows).active

\* Variant of Locked: the comparison reads "more than one use".
Locked_GreaterThanOne(user_id) ==
    LET rows == RowsOf(ai_usage, user_id)
    IN  rows # {} /\ First(rows).ai_used > 1

\* usage and usage.ai_used == 1
Locked(user_id) ==
    LET rows == RowsOf(ai_usage, user_id)
    IN  rows # {} /\ First(rows).ai_used = 1

\* Variant of ConsumeFreeQuota: an existing row is counted up instead of set to 1.
ConsumeFreeQuota_Increment(user_id) ==
    LET rows == RowsOf(ai_usage, user_id)
    IN  IF rows = {}
        THEN ai_usage \cup {[id |-> NextId(ai_usage, user_id), user_id |-> user_id, ai_used |-> 1]}
        ELSE (ai_usage \ rows) \cup {[r EXCEPT !.ai_used = r.ai_used + 1] : r \in rows}

\* the write shared by /finish and /chatbot/end
ConsumeFreeQuota(user_id) ==
    LET rows == RowsOf(ai_usage, user_id)
    IN  IF rows = {}
        THEN ai_usage \cup {[id |-> NextId(ai_usage, user_id), user_id |-> user_id, ai_used |-> 1]}
        ELSE (ai_usage \ rows) \cup {[r EXCEPT !.ai_used = 1] : r \in rows}

---------------------------------------------------------------------------
(* What a request leaves behind for the observer *)

NoInput == [none |-> TRUE]

Request(op, method, in, out, api, db) ==
    [op |-> op, method |-> method, in |-> in, out |-> out, api |-> api, db |-> db]

\* lines 71-76, 156-163: the three mentors seeded by init_db(); no handler writes them
mentors == {1, 2, 3}

\* lines 179-185: the two mock interviews seeded by init_db(), uploader_id None
SeededMockInterviews ==
    <<[id |-> 1, title |-> <<"Front Office Mock - Common Questions">>,
       notes |-> <<"Roleplay: guest complains about late check-in ...">>,
       link |-> <<"https://www.example.com/mock-frontoffice">>, uploader_id |-> 0],
      [id |-> 2, title |-> <<"F&B Service - Interview Tips">>,
       notes |-> <<"Service etiquette, table setting questions ...">>,
       link |-> <<"https://www.example.com/mock-fb">>, uploader_id |-> 0]>>

EmptyRegistry == [t \in {} |-> "closed"]

NothingInFlight == [t \in {} |-> NoInput]

Init ==
    /\ users = <<>>
    /\ subscriptions = {}
    /\ ai_usage = {}
    /\ user_profiles = {}
    /\ session = EmptySession
    /\ last = Request("start", "GET", NoInput, "none", <<>>, {})
    /\ mock_interviews = SeededMockInterviews
    /\ registry = EmptyRegistry
    /\ inflight = NothingInFlight

---------------------------------------------------------------------------
(* /signup *)

\* Variant of SignupEmail: the address is trimmed but keeps its letter case.
SignupEmail_NoLower(raw) == Strip(raw)

\* request.form.get("email", "").strip().lower() of signup
SignupEmail(raw) == Lower(Strip(raw))

\* Variant of SignupMissing: the password is not looked at.
SignupMissing_NoPassword(name, email, password) == name = <<>> \/ email = <<>>

\* line 530: not name or not email or not password
SignupMissing(name, email, password) == name = <<>> \/ email = <<>> \/ password = <<>>

SignupGet ==
    /\ last' = Request("signup", "GET", NoInput, "page:signup_form", <<>>, {})
    /\ UNCHANGED <<users, subscriptions, ai_usage, user_profiles, session>>

SignupPost(name_in, email_in, password_in) ==
    LET name == Strip(name_in)
        email == SignupEmail(email_in)
        password == Strip(password_in)
        in == [name |-> name_in, email |-> email_in, password |-> password_in]
    IN  IF SignupMissing(name, email, password)
        THEN /\ last' = Request("signup", "POST", in, "page:signup_required", <<>>, {})
             /\ UNCHANGED <<users, subscriptions, ai_usage, user_profiles, session>>
        ELSE IF UsersByEmail(email) # {}
        THEN /\ last' = Request("signup", "POST", in, "page:signup_duplicate", <<>>,
                                {<<"users", "read">>})
             /\ UNCHANGED <<users, subscriptions, ai_usage, user_profiles, session>>
        ELSE /\ users' = Append(users, [id |-> Len(users) + 1,
                                        name |-> name,
                                        email |-> email,
                                        password |-> GeneratePasswordHash(password)])
             /\ last' = Request("signup", "POST", in, "redirect:/login", <<>>,
                                {<<"users", "read">>, <<"users", "insert">>})
             /\ UNCHANGED <<subscriptions, ai_usage, user_profiles, session>>

---------------------------------------------------------------------------
(* /login, /logout *)

\* request.form.get("email", "").strip().lower() of login
LoginEmail(raw) == Lower(Strip(raw))

\* check_password_hash raises on a stored value that is no hash at all
CheckRaises(stored) == stored = <<>> \/ Head(stored) # "pbkdf2:sha256"

\* Variant of Authenticated: a known address is enough.
Authenticated_AnyPassword(found, password) == found # {}

\* lines 574-579: authenticated
Authenticated(found, password) ==
    /\ found # {}
    /\ LET user == users[First(found)]
       IN  IF CheckRaises(user.password)
           THEN user.password = password
           ELSE CheckPasswordHash(user.password, password)

\* Variant of LoginFailedPage: an unknown address gets a page of its own.
LoginFailedPage_Distinguish(found) ==
    IF found = {} THEN "page:login_unknown_email" ELSE "page:login_invalid"

\* the page of a login that did not authenticate
LoginFailedPage(found) == "page:login_invalid"

\* Variant of LoginSession: ai_history is set only when the session has none.
LoginSession_KeepHistory(user) ==
    LET s1 == SessionSet(session, "user", user.name)
        s2 == SessionSet(s1, "user_id", user.id)
        s3 == IF "ai_history" \in DOMAIN s2 THEN s2 ELSE SessionSet(s2, "ai_history", <<>>)
    IN  IF "first_time_login" \in DOMAIN s3
        THEN s3
        ELSE SessionSet(s3, "first_time_login", TRUE)

\* lines 581-586: the session of an authenticated login
LoginSession(user) ==
    LET s1 == SessionSet(session, "user", user.name)
        s2 == SessionSet(s1, "user_id", user.id)
        s3 == SessionSet(s2, "ai_history", <<>>)
    IN  IF "first_time_login" \in DOMAIN s3
        THEN s3
        ELSE SessionSet(s3, "first_time_login", TRUE)

LoginGet ==
    /\ last' = Request("login", "GET", NoInput, "page:login_form", <<>>, {})
    /\ UNCHANGED <<users, subscriptions, ai_usage, user_profiles, session>>

LoginPost(email_in, password_in) ==
    LET email == LoginEmail(email_in)
        password == Strip(password_in)
        found == UsersByEmail(email)
        in == [email |-> email_in, password |-> password_in]
    IN  /\ IF Authenticated(found, password)
           THEN /\ session' = LoginSession(users[First(found)])
                /\ last' = Request("login", "POST", in, "redirect:/dashboard", <<>>,
                                   {<<"users", "read">>})
           ELSE /\ session' = session
                /\ last' = Request("login", "POST", in, LoginFailedPage(found), <<>>,
                                   {<<"users", "read">>})
        /\ UNCHANGED <<users, subscriptions, ai_usage, user_profiles>>

\* Variant of Logout: only the identity keys are popped.
Logout_PopUser ==
    /\ session' = [k \in DOMAIN session \ {"user", "user_id"} |-> session[k]]
    /\ last' = Request("logout", "GET", NoInput, "redirect:/", <<>>, {})
    /\ UNCHANGED <<users, subscriptions, ai_usage, user_profiles>>

\* lines 591-594: session.clear()
Logout ==
    /\ session' = EmptySession
    /\ last' = Request("logout", "GET", NoInput, "redirect:/", <<>>, {})
    /\ UNCHANGED <<users, subscriptions, ai_usage, user_profiles>>

---------------------------------------------------------------------------
(* /subscribe *)

\* Variant of ActivateSubscription: an existing row is toggled.
ActivateSubscription_Toggle(user_id) ==
    LET rows == RowsOf(subscriptions, user_id)
    IN  IF rows = {}
        THEN subscriptions \cup {[id |-> NextId(subscriptions, user_id), user_id |-> user_id,
                                 active |-> TRUE]}
        ELSE (subscriptions \ rows) \cup {[r EXCEPT !.active = ~r.active] : r \in rows}

\* Variant of ActivateSubscription: a row is added whether or not one is there.
ActivateSubscription_AlwaysInsert(user_id) ==
    subscriptions \cup {[id |-> NextId(subscriptions, user_id), user_id |-> user_id,
                         active |-> TRUE]}

\* lines 604-610: the Subscription rows after a POST by user_id
ActivateSubscription(user_id) ==
    LET rows == RowsOf(subscriptions, user_id)
    IN  IF rows = {}
        THEN subscriptions \cup {[id |-> NextId(subscriptions, user_id), user_id |-> user_id,
                                 active |-> TRUE]}
        ELSE (subscriptions \ rows) \cup {[r EXCEPT !.active = TRUE] : r \in rows}

\* Variant of Subscribe: buying the Student Pass gives the free chat back.
Subscribe_Unlocks(method) ==
    IF "user_id" \notin DOMAIN session
    THEN /\ last' = Request("subscribe", method, NoInput, "redirect:/login", <<>>, {})
         /\ UNCHANGED <<users, subscriptions, ai_usage, user_profiles, session>>
    ELSE IF method = "POST"
    THEN /\ subscriptions' = ActivateSubscription(session.user_id)
         /\ ai_usage' = ai_usage \ RowsOf(ai_usage, session.user_id)
         /\ last' = Request("subscribe", method, NoInput, "redirect:/dashboard", <<>>,
                            {<<"subscriptions", "read">>,
                             <<"subscriptions", WriteKind(subscriptions, session.user_id)>>})
         /\ UNCHANGED <<users, user_profiles, session>>
    ELSE /\ last' = Request("subscribe", method, NoInput, "page:subscribe", <<>>,
                            {<<"subscriptions", "read">>})
         /\ UNCHANGED <<users, subscriptions, ai_usage, user_profiles, session>>

Subscribe(method) ==
    IF "user_id" \notin DOMAIN session
    THEN /\ last' = Request("subscribe", method, NoInput, "redirect:/login", <<>>, {})
         /\ UNCHANGED <<users, subscriptions, ai_usage, user_profiles, session>>
    ELSE IF method = "POST"
    THEN /\ subscriptions' = ActivateSubscription(session.user_id)
         /\ last' = Request("subscribe", method, NoInput, "redirect:/dashboard", <<>>,
                            {<<"subscriptions", "read">>,
                             <<"subscriptions", WriteKind(subscriptions, session.user_id)>>})
         /\ UNCHANGED <<users, ai_usage, user_profiles, session>>
    ELSE /\ last' = Request("subscribe", method, NoInput, "page:subscribe", <<>>,
                            {<<"subscriptions", "read">>})
         /\ UNCHANGED <<users, subscriptions, ai_usage, user_profiles, session>>

---------------------------------------------------------------------------
(* / (home) *)

Home ==
    LET user_id == SessionUserId(session)
        ai_used == user_id # 0 /\ \E r \in RowsOf(ai_usage, user_id) : r.ai_used >= 1
        db == IF user_id # 0
              THEN {<<"subscriptions", "read">>, <<"ai_usage", "read">>}
              ELSE {}
    IN  /\ session' = IF ai_used THEN SessionSet(session, "ai_used", TRUE) ELSE session
        /\ last' = Request("home", "GET", NoInput, "page:home", <<>>, db)
        /\ UNCHANGED <<users, subscriptions, ai_usage, user_profiles>>

---------------------------------------------------------------------------
(* /dashboard: a plain visit (GET, no form, no remove_skill) *)

\* ", ".join(skills_list)
RECURSIVE JoinSkills(_)
JoinSkills(skills_list) ==
    IF skills_list = <<>> THEN <<>>
    ELSE IF Len(skills_list) = 1 THEN skills_list[1]
    ELSE skills_list[1] \o <<",", " ">> \o JoinSkills(Tail(skills_list))

\* text.split(","): the pieces between the commas, at least one
RECURSIVE SplitComma(_)
SplitComma(text) ==
    IF \A i \in 1..Len(text) : text[i] # ","
    THEN <<text>>
    ELSE LET at == CHOOSE i \in 1..Len(text) :
                       text[i] = "," /\ \A j \in 1..(i - 1) : text[j] # ","
         IN  <<SubSeq(text, 1, at - 1)>> \o SplitComma(SubSeq(text, at + 1, Len(text)))

\* lines 662, 681: [s.strip() for s in (profile.skills_text or "").split(",") if s.strip()]
SkillsList(skills_text) ==
    LET pieces == SplitComma(skills_text)
        stripped == [i \in 1..Len(pieces) |-> Strip(pieces[i])]
    IN  SelectSeq(stripped, LAMBDA piece : piece # <<>>)

\* the helpful defaults of lines 704-716
DefaultSkills ==
    JoinSkills(<< <<"English communication">>, <<"Grooming & presentation">>,
                  <<"Customer service ...">> >>)

\* line 637: the profile created on the first visit
NewProfile(user_id) ==
    [user_id |-> user_id, skills_text |-> <<>>, target_roles |-> <<>>,
     self_rating |-> 0, resume_link |-> <<>>, notes |-> <<>>]

\* Variant of PrefillDefaults: the defaults are stored for every user whose
\* skills are empty.
PrefillDefaults_Everyone(profile, user_id) == profile.skills_text = <<>>

\* line 703: if not skills_text and user_is_subscribed(user_id)
PrefillDefaults(profile, user_id) ==
    profile.skills_text = <<>> /\ user_is_subscribed(user_id)

Dashboard ==
    IF "user_id" \notin DOMAIN session
    THEN /\ last' = Request("dashboard", "GET", NoInput, "redirect:/login", <<>>, {})
         /\ UNCHANGED <<users, subscriptions, ai_usage, user_profiles, session>>
    ELSE LET user_id == session.user_id
             created == IF RowsOf(user_profiles, user_id) = {}
                        THEN user_profiles \cup {NewProfile(user_id)}
                        ELSE user_profiles
             profile == First(RowsOf(created, user_id))
             prefill == PrefillDefaults(profile, user_id)
             db == {<<"user_profiles", "read">>, <<"subscriptions", "read">>}
                   \cup (IF created # user_profiles
                         THEN {<<"user_profiles", "insert">>} ELSE {})
                   \cup (IF prefill THEN {<<"user_profiles", "update">>} ELSE {})
         IN  /\ user_profiles' =
                    IF prefill
                    THEN (created \ {profile})
                         \cup {[profile EXCEPT !.skills_text = DefaultSkills]}
                    ELSE created
             /\ session' = IF SessionGet(session, "first_time_login", FALSE)
                           THEN SessionSet(session, "first_time_login", FALSE)
                           ELSE session
             /\ last' = Request("dashboard", "GET", NoInput, "page:dashboard", <<>>, db)
             /\ UNCHANGED <<users, subscriptions, ai_usage>>

---------------------------------------------------------------------------
(* /dashboard: the forms of the skills and resume tabs, and remove_skill *)

NoField == <<>>

\* one /dashboard request: the tab and the raw form fields, and the raw
\* remove_skill argument of the query string
DashRequest(method, tab, skills, roles, rating, new_skill, link, notes, remove) ==
    [method |-> method, tab |-> tab, skills_text |-> skills,
     target_roles |-> roles, self_rating |-> rating,
     new_skill |-> new_skill, resume_link |-> link, notes |-> notes,
     remove_skill |-> remove]

DashRequests ==
    {DashRequest("POST", "skills", <<" ", "a">>, <<"c">>, <<"7">>, NoField, NoField,
                 NoField, NoField),
     DashRequest("POST", "skills", <<"a", ",", "b">>, NoField, <<" ", "3">>, NoField,
                 NoField, NoField, NoField),
     DashRequest("POST", "skills", NoField, <<"c">>, <<"-", "1">>, NoField, NoField,
                 NoField, NoField),
     DashRequest("POST", "skills", NoField, NoField, <<"z">>, NoField, NoField,
                 NoField, NoField),
     DashRequest("POST", "skills_add", NoField, NoField, NoField, <<"b", " ">>, NoField,
                 NoField, NoField),
     DashRequest("POST", "skills_add", NoField, NoField, NoField, <<" ">>, NoField,
                 NoField, NoField),
     DashRequest("POST", "resume", NoField, NoField, NoField, NoField, <<"l", " ">>,
                 <<"m">>, NoField),
     DashRequest("GET", "skills", NoField, NoField, NoField, NoField, NoField, NoField,
                 <<" ", "Customer service ...">>),
     DashRequest("GET", "skills", NoField, NoField, NoField, NoField, NoField, NoField,
                 <<"B">>)}

Digits == <<"0", "1", "2", "3", "4", "5", "6", "7", "8", "9">>

IsDigit(c) == \E d \in 1..Len(Digits) : Digits[d] = c

DigitValue(c) == (CHOOSE d \in 1..Len(Digits) : Digits[d] = c) - 1

RECURSIVE DigitsValue(_)
DigitsValue(text) ==
    IF text = <<>> THEN 0
    ELSE 10 * DigitsValue(SubSeq(text, 1, Len(text) - 1)) + DigitValue(text[Len(text)])

\* int(text) of a stripped text: an optional sign and decimal digits
IntParses(text) ==
    LET digits == IF text # <<>> /\ text[1] \in {"-", "+"} THEN Tail(text) ELSE text
    IN  digits # <<>> /\ \A i \in 1..Len(digits) : IsDigit(digits[i])

IntOf(text) ==
    IF text[1] = "-" THEN 0 - DigitsValue(Tail(text))
    ELSE IF text[1] = "+" THEN DigitsValue(Tail(text))
    ELSE DigitsValue(text)

\* lines 651-655: int(rating_val) if rating_val else 0, and 0 on ValueError
SelfRating(self_rating_in) ==
    LET rating_val == Strip(self_rating_in)
    IN  IF rating_val # <<>> /\ IntParses(rating_val) THEN IntOf(rating_val) ELSE 0

\* lines 649-655: the profile object after the assignments of tab=skills
SkillsEdited(profile, r) ==
    [profile EXCEPT !.skills_text = Strip(r.skills_text),
                    !.target_roles = Strip(r.target_roles),
                    !.self_rating = SelfRating(r.self_rating)]

\* lines 662-665: the profile object after tab=skills_add
SkillAdded(profile, new_skill) ==
    LET skills_list == SkillsList(profile.skills_text)
    IN  IF \E i \in 1..Len(skills_list) : skills_list[i] = new_skill
        THEN profile
        ELSE [profile EXCEPT !.skills_text = JoinSkills(Append(skills_list, new_skill))]

\* lines 681-683: the profile object after remove_skill
SkillRemoved(profile, remove_skill) ==
    LET skills_list == SkillsList(profile.skills_text)
        kept == SelectSeq(skills_list,
                          LAMBDA skill : Lower(skill) # Lower(Strip(remove_skill)))
    IN  [profile EXCEPT !.skills_text = JoinSkills(kept)]

\* lines 671-672: the profile object after the assignments of tab=resume
ResumeEdited(profile, r) ==
    [profile EXCEPT !.resume_link = Strip(r.resume_link), !.notes = Strip(r.notes)]

\* db.commit() while the profile object belongs to the open store session
\* (line 673): the changed attributes are written
Commit(table, profile, edited) == (table \ {profile}) \cup {edited}

\* Variant of CommitAfterClose: the profile object is still tracked.
CommitAfterClose_Tracked(table, profile, edited) == (table \ {profile}) \cup {edited}

\* db.commit() of lines 656, 666, 684.  user_is_subscribed() (lines 333-335) has
\* taken the thread's scoped session from get_db() and closed it; close()
\* expunges every object of the session, the profile among them, so the
\* assignments are made on a detached object, the session has nothing to flush
\* and the commit writes no row.
CommitAfterClose(table, profile, edited) == table

\* the attributes of the profile created at lines 637-639 are expired by the
\* commit of line 639; reading one after the session was closed raises
\* DetachedInstanceError
ReadsExpired(found) == found = {}

\* lines 622-686: a request with a form of the skills or resume tab, or with
\* remove_skill
DashboardForm(r) ==
    LET tab == IF r.tab = "" THEN "home" ELSE r.tab
    IN
    IF "user_id" \notin DOMAIN session
    THEN /\ last' = Request("dashboard", r.method, r, "redirect:/login", <<>>, {})
         /\ UNCHANGED <<users, subscriptions, ai_usage, user_profiles, session>>
    ELSE
    LET user_id == session.user_id
        found == RowsOf(user_profiles, user_id)
        created == IF found = {}
                   THEN user_profiles \cup {NewProfile(user_id)}
                   ELSE user_profiles
        profile == First(RowsOf(created, user_id))
        loaded == {<<"user_profiles", "read">>}
                  \cup (IF found = {} THEN {<<"user_profiles", "insert">>} ELSE {})
        gated == loaded \cup {<<"subscriptions", "read">>}
        Written(table) == IF table # created THEN {<<"user_profiles", "update">>} ELSE {}
        new_skill == Strip(r.new_skill)
        Ends(table, out, db) ==
            /\ user_profiles' = table
            /\ last' = Request("dashboard", r.method, r, out, <<>>, db \cup Written(table))
    IN
    /\ UNCHANGED <<users, subscriptions, ai_usage, session>>
    /\ IF r.method = "POST" /\ tab \in {"skills", "skills_add"}
       THEN IF ~user_is_subscribed(user_id)
            THEN Ends(created, "redirect:/dashboard?tab=skills", gated)
            ELSE IF tab = "skills"
            THEN Ends(CommitAfterClose(created, profile, SkillsEdited(profile, r)),
                      "redirect:/dashboard?tab=skills", gated)
            ELSE IF new_skill = <<>>
            THEN Ends(created, "redirect:/dashboard?tab=skills", gated)
            ELSE IF ReadsExpired(found)
            THEN Ends(created, "error:DetachedInstanceError", gated)
            ELSE Ends(CommitAfterClose(created, profile, SkillAdded(profile, new_skill)),
                      "redirect:/dashboard?tab=skills", gated)
       ELSE IF r.method = "POST" /\ tab = "resume"
       THEN Ends(Commit(created, profile, ResumeEdited(profile, r)),
                 "redirect:/dashboard?tab=resume", loaded)
       ELSE \* lines 678-686: if remove_skill
            /\ r.remove_skill # NoField
            /\ IF ~user_is_subscribed(user_id)
               THEN Ends(created, "redirect:/dashboard?tab=skills", gated)
               ELSE IF ReadsExpired(found)
               THEN Ends(created, "error:DetachedInstanceError", gated)
               ELSE Ends(CommitAfterClose(created, profile,
                                          SkillRemoved(profile, r.remove_skill)),
                         "redirect:/dashboard?tab=skills", gated)

---------------------------------------------------------------------------
(* /chatbot, /finish, /chatbot/end *)

AI_SYSTEM_PROMPT == <<"You are CareerInn's AI career guide ...">>

\* line 1266: the fixed notice of a locked account
LockNotice == <<"Your free AI career chat session has ended. Please check the Student Pass ...">>

\* line 1277
NotConfiguredReply ==
    <<"AI is not configured yet. Please ask the admin to set GROQ_API_KEY ...">>

\* resp.choices[0].message.content of the completion API
ApiReplyText == <<"r">>

\* str(e) of the exception the completion API raised
ApiErrorText == <<"e">>

Entry(role, content) == [role |-> role, content |-> content]

\* Variant of Messages: only the system prompt and the newest entry are sent.
Messages_LastOnly(history) ==
    <<Entry("system", AI_SYSTEM_PROMPT), history[Len(history)]>>

\* line 1274: messages
Messages(history) == <<Entry("system", AI_SYSTEM_PROMPT)>> \o history

\* lines 40-45: get_groq_client() is None without a key
HasClient(api) == api # "nokey"

\* lines 1276-1283: reply
Reply(api) ==
    IF ~HasClient(api)
    THEN NotConfiguredReply
    ELSE IF api = "reply" THEN ApiReplyText ELSE <<"AI error: ">> \o ApiErrorText

\* Variant of LockedTurn: the notice is filed as an entry of the user.
LockedTurn_AsUser(history) == Append(history, Entry("user", LockNotice))

\* lines 1265-1270: the turn of a locked account
LockedTurn(history) == Append(history, Entry("assistant", LockNotice))

\* Variant of IsReset: the branch is taken for reset=true.
IsReset_True(reset) == reset = "true"

\* does the request take the reset branch of lines 1256-1259
IsReset(reset) == reset = "1"

\* lines 1256-1288: the handler after it has read `locked` (line 1255), for the
\* session `came` the request arrived with; the response carries the session
\* the handler made of it
ChatbotAnswer(room, came, locked, method, reset, message_in, api) ==
    LET in == [reset |-> reset, message |-> message_in]
        read == {<<"ai_usage", "read">>}
        history == SessionGet(came, "ai_history", <<>>)
        user_msg == Strip(message_in)
        asked == Append(history, Entry("user", user_msg))
    IN
    IF IsReset(reset)
    THEN /\ session' = SessionSet(came, "ai_history", <<>>)
         /\ last' = Request("chatbot", method, in, "redirect:/chatbot", <<>>, read)
    ELSE IF method = "POST" /\ locked
    THEN /\ Len(history) + 1 <= room
         /\ session' = SessionSet(came, "ai_history", LockedTurn(history))
         /\ last' = Request("chatbot", method, in, "page:chatbot:locked", <<>>, read)
    ELSE IF method = "POST" /\ user_msg # <<>>
    THEN /\ Len(history) + 2 <= room
         /\ session' = SessionSet(came, "ai_history",
                                  Append(asked, Entry("assistant", Reply(api))))
         /\ last' = Request("chatbot", method, in, "page:chatbot",
                            IF HasClient(api) THEN <<Messages(asked)>> ELSE <<>>, read)
    ELSE /\ session' = SessionSet(came, "ai_history", history)
         /\ last' = Request("chatbot", method, in,
                            IF locked THEN "page:chatbot:locked" ELSE "page:chatbot",
                            <<>>, read)

\* lines 1248-1288, for sessions whose ai_history is let to grow to `room` entries
ChatbotTurnWithin(room, method, reset, message_in, api) ==
    LET user_id == SessionUserId(session)
        in == [reset |-> reset, message |-> message_in]
    IN
    IF user_id = 0
    THEN /\ last' = Request("chatbot", method, in, "redirect:/login", <<>>, {})
         /\ session' = session
    ELSE ChatbotAnswer(room, session, Locked(user_id), method, reset, message_in, api)

ChatbotTurn(method, reset, message_in, api) ==
    ChatbotTurnWithin(MaxHist, method, reset, message_in, api)

\* Variant of Chatbot: the account is locked as soon as a turn got its reply.
Chatbot_AutoLock(method, reset, message_in, api) ==
    /\ ChatbotTurn(method, reset, message_in, api)
    /\ ai_usage' = IF last'.out = "page:chatbot" /\ method = "POST"
                      /\ Strip(message_in) # <<>>
                   THEN ConsumeFreeQuota(SessionUserId(session))
                   ELSE ai_usage
    /\ UNCHANGED <<users, subscriptions, user_profiles>>

\* lines 1248-1288: the handler reads ai_usage and writes no table
Chatbot(method, reset, message_in, api) ==
    /\ ChatbotTurn(method, reset, message_in, api)
    /\ UNCHANGED <<users, subscriptions, ai_usage, user_profiles>>

\* Variant of Finish: the quota is consumed without looking for a logged-in user.
Finish_NoLoginCheck ==
    LET user_id == SessionUserId(session)
    IN  /\ ai_usage' = ConsumeFreeQuota(user_id)
        /\ last' = Request("finish", "GET", NoInput, "redirect:/chatbot", <<>>,
                           {<<"ai_usage", "read">>,
                            <<"ai_usage", WriteKind(ai_usage, user_id)>>})
        /\ UNCHANGED <<users, subscriptions, user_profiles, session>>

\* Variant of LongChatbot: a turn answered by the not-configured text or by an
\* 'AI error' text uses the free quota up.
LongChatbot_FailureConsumes(method, reset, message_in, api) ==
    /\ ChatbotTurnWithin(MaxLongHist, method, reset, message_in, api)
    /\ ai_usage' = IF last'.out = "page:chatbot" /\ method = "POST"
                      /\ Strip(message_in) # <<>> /\ api # "reply"
                   THEN ConsumeFreeQuota(SessionUserId(session))
                   ELSE ai_usage
    /\ UNCHANGED <<users, subscriptions, user_profiles>>

\* the same handler in a browser that is let to hold a history of several turns
LongChatbot(method, reset, message_in, api) ==
    /\ ChatbotTurnWithin(MaxLongHist, method, reset, message_in, api)
    /\ UNCHANGED <<users, subscriptions, ai_usage, user_profiles>>

\* lines 1290-1304
Finish ==
    LET user_id == SessionUserId(session)
    IN  IF user_id = 0
        THEN /\ last' = Request("finish", "GET", NoInput, "redirect:/login", <<>>, {})
             /\ UNCHANGED <<users, subscriptions, ai_usage, user_profiles, session>>
        ELSE /\ ai_usage' = ConsumeFreeQuota(user_id)
             /\ last' = Request("finish", "GET", NoInput, "redirect:/chatbot", <<>>,
                                {<<"ai_usage", "read">>,
                                 <<"ai_usage", WriteKind(ai_usage, user_id)>>})
             /\ UNCHANGED <<users, subscriptions, user_profiles, session>>

\* Variant of EndChatbot: the quota is consumed and the history is left alone.
EndChatbot_KeepHistory ==
    LET user_id == SessionUserId(session)
    IN  IF user_id = 0
        THEN /\ last' = Request("chatbot/end", "POST", NoInput, "redirect:/login", <<>>, {})
             /\ UNCHANGED <<users, subscriptions, ai_usage, user_profiles, session>>
        ELSE /\ ai_usage' = ConsumeFreeQuota(user_id)
             /\ session' = SessionSet(session, "ai_used", TRUE)
             /\ last' = Request("chatbot/end", "POST", NoInput, "redirect:/chatbot", <<>>,
                                {<<"ai_usage", "read">>,
                                 <<"ai_usage", WriteKind(ai_usage, user_id)>>})
             /\ UNCHANGED <<users, subscriptions, user_profiles>>

EndChatbot ==
    LET user_id == SessionUserId(session)
    IN  IF user_id = 0
        THEN /\ last' = Request("chatbot/end", "POST", NoInput, "redirect:/login", <<>>, {})
             /\ UNCHANGED <<users, subscriptions, ai_usage, user_profiles, session>>
        ELSE /\ ai_usage' = ConsumeFreeQuota(user_id)
             /\ session' = SessionSet(SessionSet(session, "ai_history", <<>>),
                                      "ai_used", TRUE)
             /\ last' = Request("chatbot/end", "POST", NoInput, "redirect:/chatbot", <<>>,
                                {<<"ai_usage", "read">>,
                                 <<"ai_usage", WriteKind(ai_usage, user_id)>>})
             /\ UNCHANGED <<users, subscriptions, user_profiles>>

---------------------------------------------------------------------------
(* /forgot-password *)

\* lines 553-555: FORGOT_FORM is a local name bound only at line 556, so the
\* "Email not found" page cannot be built and the handler raises UnboundLocalError
ForgotPassword(method, email_in) ==
    LET email == Lower(Strip(email_in))
        in == [email |-> email_in]
    IN  /\ IF method = "GET"
           THEN last' = Request("forgot-password", method, NoInput, "page:forgot_form",
                                <<>>, {})
           ELSE IF UsersByEmail(email) # {}
           THEN last' = Request("forgot-password", method, in, "page:forgot_sent",
                                <<>>, {<<"users", "read">>})
           ELSE last' = Request("forgot-password", method, in, "error:UnboundLocalError",
                                <<>>, {<<"users", "read">>})
        /\ UNCHANGED <<users, subscriptions, ai_usage, user_profiles, session,
                       mock_interviews>>

---------------------------------------------------------------------------
(* The subscriber-only pages: /mentorship, /mock-interviews, /mock-interviews/ai, *)
(* /global-match; and /book-mentor/<id>                                           *)

\* what user_is_subscribed(user_id) reads: nothing for a session without user_id
SubscriptionRead(user_id) == IF user_id = 0 THEN {} ELSE {<<"subscriptions", "read">>}

\* Variant of PremiumUnlocked: any logged-in user passes.
PremiumUnlocked_LoggedIn(user_id) == user_id # 0

\* lines 1029, 1078, 1122, 1228: not user_is_subscribed(user_id) gives the locked view
PremiumUnlocked(user_id) == user_is_subscribed(user_id)

Mentorship ==
    LET user_id == SessionUserId(session)
    IN  /\ IF ~PremiumUnlocked(user_id)
           THEN last' = Request("mentorship", "GET", NoInput, "page:mentorship:locked",
                                <<>>, SubscriptionRead(user_id))
           ELSE last' = Request("mentorship", "GET", NoInput, "page:mentorship",
                                <<>>, SubscriptionRead(user_id) \cup {<<"mentors", "read">>})
        /\ UNCHANGED <<users, subscriptions, ai_usage, user_profiles, session,
                       mock_interviews>>

BookMentor(method, mentor_id) ==
    LET in == [mentor_id |-> mentor_id]
        out == IF mentor_id \notin mentors THEN "redirect:/mentorship"
               ELSE IF method = "POST" THEN "page:booking_sent"
               ELSE "page:book_mentor"
    IN  /\ last' = Request("book-mentor", method, in, out, <<>>, {<<"mentors", "read">>})
        /\ UNCHANGED <<users, subscriptions, ai_usage, user_profiles, session,
                       mock_interviews>>

MockInterviews(method, title_in) ==
    LET user_id == SessionUserId(session)
        title == Strip(title_in)
        in == [title |-> title_in]
    IN  /\ IF ~PremiumUnlocked(user_id)
           THEN /\ last' = Request("mock-interviews", method, in,
                                   "page:mock-interviews:locked", <<>>,
                                   SubscriptionRead(user_id))
                /\ mock_interviews' = mock_interviews
           ELSE IF method = "POST" /\ title # <<>>
           THEN /\ Len(mock_interviews) < MaxMock
                /\ mock_interviews' =
                       Append(mock_interviews,
                              [id |-> Len(mock_interviews) + 1, title |-> title,
                               notes |-> <<>>, link |-> <<>>, uploader_id |-> user_id])
                /\ last' = Request("mock-interviews", method, in,
                                   "redirect:/mock-interviews", <<>>,
                                   SubscriptionRead(user_id)
                                   \cup {<<"mock_interviews", "insert">>})
           ELSE /\ last' = Request("mock-interviews", method, in, "page:mock-interviews",
                                   <<>>, SubscriptionRead(user_id)
                                         \cup {<<"mock_interviews", "read">>})
                /\ mock_interviews' = mock_interviews
        /\ UNCHANGED <<users, subscriptions, ai_usage, user_profiles, session>>

\* line 1131
MOCK_SYSTEM_PROMPT == <<"You are an AI mock interviewer for hospitality roles ...">>

\* line 1134
MockNotConfiguredReply == <<"AI not configured. Please set GROQ_API_KEY in environment.">>

\* lines 1133-1140: reply
MockReply(api) ==
    IF ~HasClient(api)
    THEN MockNotConfiguredReply
    ELSE IF api = "reply" THEN ApiReplyText ELSE <<"AI error: ">> \o ApiErrorText

\* Variant of MockInterviewAi: a locked account is turned away like an
\* unsubscribed one.
MockInterviewAi_Metered(method, message_in, api) ==
    LET user_id == SessionUserId(session)
        in == [message |-> message_in]
        history == SessionGet(session, "mock_ai_history", <<>>)
        user_msg == Strip(message_in)
        asked == Append(history, Entry("user", user_msg))
    IN  /\ IF ~PremiumUnlocked(user_id) \/ Locked(user_id)
           THEN /\ last' = Request("mock-interviews/ai", method, in,
                                   "page:mock-interviews/ai:locked", <<>>,
                                   SubscriptionRead(user_id))
                /\ session' = session
           ELSE IF method = "POST" /\ user_msg # <<>>
           THEN /\ Len(history) + 2 <= MaxHist
                /\ session' = SessionSet(session, "mock_ai_history",
                                         Append(asked, Entry("assistant", MockReply(api))))
                /\ last' = Request("mock-interviews/ai", method, in,
                                   "page:mock-interviews/ai",
                                   IF HasClient(api)
                                   THEN <<(<<Entry("system", MOCK_SYSTEM_PROMPT)>> \o asked)>>
                                   ELSE <<>>,
                                   SubscriptionRead(user_id))
           ELSE /\ last' = Request("mock-interviews/ai", method, in,
                                   "page:mock-interviews/ai", <<>>,
                                   SubscriptionRead(user_id))
                /\ session' = session
        /\ UNCHANGED <<users, subscriptions, ai_usage, user_profiles, mock_interviews>>

\* lines 1120-1160
MockInterviewAi(method, message_in, api) ==
    LET user_id == SessionUserId(session)
        in == [message |-> message_in]
        history == SessionGet(session, "mock_ai_history", <<>>)
        user_msg == Strip(message_in)
        asked == Append(history, Entry("user", user_msg))
    IN  /\ IF ~PremiumUnlocked(user_id)
           THEN /\ last' = Request("mock-interviews/ai", method, in,
                                   "page:mock-interviews/ai:locked", <<>>,
                                   SubscriptionRead(user_id))
                /\ session' = session
           ELSE IF method = "POST" /\ user_msg # <<>>
           THEN /\ Len(history) + 2 <= MaxHist
                /\ session' = SessionSet(session, "mock_ai_history",
                                         Append(asked, Entry("assistant", MockReply(api))))
                /\ last' = Request("mock-interviews/ai", method, in,
                                   "page:mock-interviews/ai",
                                   IF HasClient(api)
                                   THEN <<(<<Entry("system", MOCK_SYSTEM_PROMPT)>> \o asked)>>
                                   ELSE <<>>,
                                   SubscriptionRead(user_id))
           ELSE /\ last' = Request("mock-interviews/ai", method, in,
                                   "page:mock-interviews/ai", <<>>,
                                   SubscriptionRead(user_id))
                /\ session' = session
        /\ UNCHANGED <<users, subscriptions, ai_usage, user_profiles, mock_interviews>>

GlobalMatch ==
    LET user_id == SessionUserId(session)
    IN  /\ last' = Request("global-match", "GET", NoInput,
                           IF ~PremiumUnlocked(user_id)
                           THEN "page:global-match:locked" ELSE "page:global-match",
                           <<>>, SubscriptionRead(user_id))
        /\ UNCHANGED <<users, subscriptions, ai_usage, user_profiles, session,
                       mock_interviews>>

---------------------------------------------------------------------------
(* The store session of a request *)

\* lines 1087-1097: the one path that returns after a commit without db.close()
ReturnsUnclosed(req) ==
    req.op = "mock-interviews" /\ req.out = "redirect:/mock-interviews"

\* db.commit() raised in signup, subscribe or finish: the db.close() after it is
\* not reached (the finally of end_chatbot, lines 1320-1321, does reach it)
RaisedUnclosed(req) ==
    req.out = "error:IntegrityError" /\ req.op \in {"signup", "subscribe", "finish"}

\* lines 127-128, 51: the registry when the handler of request req, run by thread t,
\* has returned or raised: get_db() put the thread's session there, db.close()
\* released its connection and left it there
HandlerExit(req, t) ==
    IF req.db = {}
    THEN registry
    ELSE [x \in DOMAIN registry \cup {t} |->
             IF x = t
             THEN IF ReturnsUnclosed(req) \/ RaisedUnclosed(req)
                  THEN "active" ELSE "closed"
             ELSE registry[x]]

\* Variant of shutdown_session: nothing is done when the request ends.
shutdown_session_Nothing(reg, t) == reg

\* lines 196-198: SessionLocal.remove() closes and discards the thread's session
shutdown_session(reg, t) == [x \in DOMAIN reg \ {t} |-> reg[x]]

\* the end of a request served by thread t: its handler has built the response
\* (or raised) and the application context is torn down
RequestEndsOn(t) == registry' = shutdown_session(HandlerExit(last', t), t)

\* the end of a request where one worker thread serves one request at a time
RequestEnds ==
    /\ RequestEndsOn("t1")
    /\ inflight' = inflight

\* a request of the routes that never touch mock_interviews
CoreRequestEnds == RequestEnds /\ mock_interviews' = mock_interviews

---------------------------------------------------------------------------
(* The application: one request at a time *)

Next ==
    \/ Home /\ CoreRequestEnds
    \/ SignupGet /\ CoreRequestEnds
    \/ (\E f \in SignupForms : SignupPost(f.name, f.email, f.password)) /\ CoreRequestEnds
    \/ LoginGet /\ CoreRequestEnds
    \/ (\E f \in LoginForms : LoginPost(f.email, f.password)) /\ CoreRequestEnds
    \/ Logout /\ CoreRequestEnds
    \/ (\E m \in Methods : Subscribe(m)) /\ CoreRequestEnds
    \/ Dashboard /\ CoreRequestEnds
    \/ (\E r \in ChatRequests : Chatbot(r.method, r.reset, r.message, r.api))
          /\ CoreRequestEnds
    \/ Finish /\ CoreRequestEnds
    \/ EndChatbot /\ CoreRequestEnds

Spec == Init /\ [][Next]_vars

\* The account and subscription routes with the subscriber-only pages.
NextPremium ==
    \/ (\E f \in SignupForms : SignupPost(f.name, f.email, f.password)) /\ CoreRequestEnds
    \/ (\E f \in LoginForms : LoginPost(f.email, f.password)) /\ CoreRequestEnds
    \/ Logout /\ CoreRequestEnds
    \/ (\E m \in Methods : Subscribe(m)) /\ CoreRequestEnds
    \/ EndChatbot /\ CoreRequestEnds
    \/ (\E r \in ForgotRequests : ForgotPassword(r.method, r.email)) /\ RequestEnds
    \/ Mentorship /\ RequestEnds
    \/ (\E r \in BookRequests : BookMentor(r.method, r.mentor_id)) /\ RequestEnds
    \/ (\E r \in MockRequests : MockInterviews(r.method, r.title)) /\ RequestEnds
    \/ (\E r \in MockAiRequests : MockInterviewAi(r.method, r.message, r.api))
          /\ RequestEnds
    \/ GlobalMatch /\ RequestEnds

SpecPremium == Init /\ [][NextPremium]_vars

\* One student's career chat, with room for several turns.
NextChat ==
    \/ (\E f \in ChatSignupForms : SignupPost(f.name, f.email, f.password))
          /\ CoreRequestEnds
    \/ (\E f \in ChatLoginForms : LoginPost(f.email, f.password)) /\ CoreRequestEnds
    \/ Logout /\ CoreRequestEnds
    \/ Home /\ CoreRequestEnds
    \/ (\E r \in ChatRequests : LongChatbot(r.method, r.reset, r.message, r.api))
          /\ CoreRequestEnds
    \/ Finish /\ CoreRequestEnds
    \/ EndChatbot /\ CoreRequestEnds

SpecChat == Init /\ [][NextChat]_vars

---------------------------------------------------------------------------
(* The dashboard of one student, with and without the Student Pass *)

NextDash ==
    \/ (\E f \in ChatSignupForms : SignupPost(f.name, f.email, f.password))
          /\ CoreRequestEnds
    \/ (\E f \in ChatLoginForms : LoginPost(f.email, f.password)) /\ CoreRequestEnds
    \/ Logout /\ CoreRequestEnds
    \/ Subscribe("POST") /\ CoreRequestEnds
    \/ Dashboard /\ CoreRequestEnds
    \/ (\E r \in DashRequests : DashboardForm(r)) /\ CoreRequestEnds

SpecDash == Init /\ [][NextDash]_vars

---------------------------------------------------------------------------
(* Requests served by two worker threads.  A handler that looks a row up and   *)
(* then writes takes two steps, the read (up to the query) and the commit (the *)
(* rest of the handler); the steps of two requests interleave.                 *)

Threads == {"t1", "t2"}

\* The forms posted to /signup and /login under SpecConc.
ConcSignupForms == {f \in SignupForms : f.name = <<"n">> /\ f.password # <<>>
                                        /\ Strip(f.email) # <<>>}

ConcLoginForms == {f \in LoginForms : f.password = <<"p">> /\ f.email # <<>>}

QuotaRoutes == {"finish", "chatbot/end"}

Free(t) == t \notin DOMAIN inflight

\* the thread keeps the locals of its handler until the commit step
Holds(t, locals) ==
    [x \in DOMAIN inflight \cup {t} |-> IF x = t THEN locals ELSE inflight[x]]

Returned(t) == [x \in DOMAIN inflight \ {t} |-> inflight[x]]

\* get_db() in thread t
Acquired(t) == [x \in DOMAIN registry \cup {t} |-> IF x = t THEN "active" ELSE registry[x]]

\* Variant of EmailUnique: the users table has no UNIQUE constraint on email.
EmailUnique_NotEnforced(email) == TRUE

\* line 59: unique=True -- the store accepts a new User row with this email
EmailUnique(email) == UsersByEmail(email) = {}

\* Variant of UserIdUnique: the tables have no UNIQUE constraint on user_id.
UserIdUnique_NotEnforced(table, user_id) == TRUE

\* lines 89, 106: unique=True -- the store accepts a new row of this user_id
UserIdUnique(table, user_id) == RowsOf(table, user_id) = {}

\* the rows after sub.active = True / usage.ai_used = 1 on the rows read earlier
UpdateFound(table, found, field, value) ==
    {IF r.id \in {x.id : x \in found}
     THEN [k \in DOMAIN r |-> IF k = field THEN value ELSE r[k]]
     ELSE r : r \in table}

\* signup, lines 526-534: up to the query for an existing user
SignupRead(t, name_in, email_in, password_in) ==
    LET name == Strip(name_in)
        email == SignupEmail(email_in)
        password == Strip(password_in)
        in == [name |-> name_in, email |-> email_in, password |-> password_in]
    IN  /\ Free(t)
        /\ IF SignupMissing(name, email, password) \/ UsersByEmail(email) # {}
           THEN /\ SignupPost(name_in, email_in, password_in)
                /\ RequestEndsOn(t)
                /\ inflight' = inflight
           ELSE /\ inflight' = Holds(t, [op |-> "signup", in |-> in, name |-> name,
                                         email |-> email, password |-> password])
                /\ registry' = Acquired(t)
                /\ UNCHANGED <<users, subscriptions, ai_usage, user_profiles, session,
                               last>>
        /\ mock_interviews' = mock_interviews

\* signup, lines 537-543: db.add(user), db.commit(), db.close(), redirect
SignupCommit(t) ==
    /\ ~Free(t)
    /\ inflight[t].op = "signup"
    /\ LET l == inflight[t]
       IN  IF EmailUnique(l.email)
           THEN /\ users' = Append(users, [id |-> Len(users) + 1,
                                           name |-> l.name,
                                           email |-> l.email,
                                           password |-> GeneratePasswordHash(l.password)])
                /\ last' = Request("signup", "POST", l.in, "redirect:/login", <<>>,
                                   {<<"users", "read">>, <<"users", "insert">>})
           ELSE /\ users' = users
                /\ last' = Request("signup", "POST", l.in, "error:IntegrityError", <<>>,
                                   {<<"users", "read">>})
    /\ inflight' = Returned(t)
    /\ RequestEndsOn(t)
    /\ UNCHANGED <<subscriptions, ai_usage, user_profiles, session, mock_interviews>>

\* POST /subscribe, lines 599-603: up to the query for the user's row
SubscribeRead(t) ==
    /\ Free(t)
    /\ IF "user_id" \notin DOMAIN session
       THEN /\ Subscribe("POST")
            /\ RequestEndsOn(t)
            /\ inflight' = inflight
       ELSE /\ inflight' = Holds(t, [op |-> "subscribe", user_id |-> session.user_id,
                                     found |-> RowsOf(subscriptions, session.user_id)])
            /\ registry' = Acquired(t)
            /\ UNCHANGED <<users, subscriptions, ai_usage, user_profiles, session, last>>
    /\ mock_interviews' = mock_interviews

\* POST /subscribe, lines 604-612: add or set, db.commit(), db.close(), redirect
SubscribeCommit(t) ==
    /\ ~Free(t)
    /\ inflight[t].op = "subscribe"
    /\ LET l == inflight[t]
       IN  IF l.found # {}
           THEN /\ subscriptions' = UpdateFound(subscriptions, l.found, "active", TRUE)
                /\ last' = Request("subscribe", "POST", NoInput, "redirect:/dashboard",
                                   <<>>, {<<"subscriptions", "read">>,
                                          <<"subscriptions", "update">>})
           ELSE IF UserIdUnique(subscriptions, l.user_id)
           THEN /\ subscriptions' =
                       subscriptions \cup {[id |-> NextId(subscriptions, l.user_id),
                                            user_id |-> l.user_id, active |-> TRUE]}
                /\ last' = Request("subscribe", "POST", NoInput, "redirect:/dashboard",
                                   <<>>, {<<"subscriptions", "read">>,
                                          <<"subscriptions", "insert">>})
           ELSE /\ subscriptions' = subscriptions
                /\ last' = Request("subscribe", "POST", NoInput, "error:IntegrityError",
                                   <<>>, {<<"subscriptions", "read">>})
    /\ inflight' = Returned(t)
    /\ RequestEndsOn(t)
    /\ UNCHANGED <<users, ai_usage, user_profiles, session, mock_interviews>>

\* the method each of the two routes is served for
QuotaMethod(op) == IF op = "finish" THEN "GET" ELSE "POST"

\* /finish, lines 1292-1296, and /chatbot/end, lines 1308-1313: up to the query
QuotaRead(t, op) ==
    /\ Free(t)
    /\ IF SessionUserId(session) = 0
       THEN /\ IF op = "finish" THEN Finish ELSE EndChatbot
            /\ RequestEndsOn(t)
            /\ inflight' = inflight
       ELSE /\ inflight' = Holds(t, [op |-> op, user_id |-> SessionUserId(session),
                                     found |-> RowsOf(ai_usage, SessionUserId(session)),
                                     session |-> session])
            /\ registry' = Acquired(t)
            /\ UNCHANGED <<users, subscriptions, ai_usage, user_profiles, session, last>>
    /\ mock_interviews' = mock_interviews

\* /finish, lines 1297-1304, and /chatbot/end, lines 1314-1324: add or set,
\* db.commit(), db.close(); end_chatbot then rewrites the session it came with
QuotaCommit(t) ==
    /\ ~Free(t)
    /\ inflight[t].op \in QuotaRoutes
    /\ LET l == inflight[t]
           done == IF l.op = "chatbot/end"
                   THEN SessionSet(SessionSet(l.session, "ai_history", <<>>),
                                   "ai_used", TRUE)
                   ELSE session
       IN  IF l.found # {}
           THEN /\ ai_usage' = UpdateFound(ai_usage, l.found, "ai_used", 1)
                /\ session' = done
                /\ last' = Request(l.op, QuotaMethod(l.op), NoInput, "redirect:/chatbot",
                                   <<>>, {<<"ai_usage", "read">>, <<"ai_usage", "update">>})
           ELSE IF UserIdUnique(ai_usage, l.user_id)
           THEN /\ ai_usage' = ai_usage \cup {[id |-> NextId(ai_usage, l.user_id),
                                              user_id |-> l.user_id, ai_used |-> 1]}
                /\ session' = done
                /\ last' = Request(l.op, QuotaMethod(l.op), NoInput, "redirect:/chatbot",
                                   <<>>, {<<"ai_usage", "read">>, <<"ai_usage", "insert">>})
           ELSE /\ ai_usage' = ai_usage
                /\ session' = session
                /\ last' = Request(l.op, QuotaMethod(l.op), NoInput,
                                   "error:IntegrityError", <<>>, {<<"ai_usage", "read">>})
    /\ inflight' = Returned(t)
    /\ RequestEndsOn(t)
    /\ UNCHANGED <<users, subscriptions, user_profiles, mock_interviews>>

\* a handler with a single store access, served in one step by a free thread
OneStep(t) ==
    /\ Free(t)
    /\ RequestEndsOn(t)
    /\ inflight' = inflight

NextConc ==
    \/ \E t \in Threads : \E f \in ConcSignupForms :
           SignupRead(t, f.name, f.email, f.password)
    \/ \E t \in Threads : SignupCommit(t)
    \/ \E t \in Threads : \E f \in ConcLoginForms :
           LoginPost(f.email, f.password) /\ OneStep(t)
                                          /\ mock_interviews' = mock_interviews
    \/ \E t \in Threads : Logout /\ OneStep(t) /\ mock_interviews' = mock_interviews
    \/ \E t \in Threads : SubscribeRead(t)
    \/ \E t \in Threads : SubscribeCommit(t)
    \/ \E t \in Threads : \E op \in QuotaRoutes : QuotaRead(t, op)
    \/ \E t \in Threads : QuotaCommit(t)

SpecConc == Init /\ [][NextConc]_vars

---------------------------------------------------------------------------
(* /chatbot against /chatbot/end of the same account on two worker threads    *)

\* chatbot, lines 1250-1255: up to the evaluation of `locked`
ChatbotRead(t, method, reset, message_in) ==
    /\ Free(t)
    /\ IF SessionUserId(session) = 0
       THEN /\ Chatbot(method, reset, message_in, "nokey")
            /\ RequestEndsOn(t)
            /\ inflight' = inflight
       ELSE /\ inflight' = Holds(t, [op |-> "chatbot", method |-> method,
                                     reset |-> reset, message |-> message_in,
                                     locked |-> Locked(SessionUserId(session)),
                                     session |-> session])
            /\ registry' = Acquired(t)
            /\ UNCHANGED <<users, subscriptions, ai_usage, user_profiles, session, last>>
    /\ mock_interviews' = mock_interviews

\* Variant of ChatbotFinish: the handler looks the usage row up again before it
\* serves the turn.
ChatbotFinish_ReadsAgain(t, api) ==
    /\ ~Free(t)
    /\ inflight[t].op = "chatbot"
    /\ LET l == inflight[t]
       IN  ChatbotAnswer(MaxHist, l.session, Locked(SessionUserId(l.session)),
                         l.method, l.reset, l.message, api)
    /\ inflight' = Returned(t)
    /\ RequestEndsOn(t)
    /\ UNCHANGED <<users, subscriptions, ai_usage, user_profiles, mock_interviews>>

\* chatbot, lines 1256-1288: the rest of the handler, with the `locked` it read
ChatbotFinish(t, api) ==
    /\ ~Free(t)
    /\ inflight[t].op = "chatbot"
    /\ LET l == inflight[t]
       IN  ChatbotAnswer(MaxHist, l.session, l.locked, l.method, l.reset, l.message, api)
    /\ inflight' = Returned(t)
    /\ RequestEndsOn(t)
    /\ UNCHANGED <<users, subscriptions, ai_usage, user_profiles, mock_interviews>>

\* what the completion API does when it is called
ApiOutcomes == {"reply", "raise", "nokey"}

NextRace ==
    \/ \E t \in Threads : \E f \in ChatSignupForms :
           SignupPost(f.name, f.email, f.password) /\ OneStep(t)
                                                  /\ mock_interviews' = mock_interviews
    \/ \E t \in Threads : \E f \in ChatLoginForms :
           LoginPost(f.email, f.password) /\ OneStep(t)
                                          /\ mock_interviews' = mock_interviews
    \/ \E t \in Threads : QuotaRead(t, "chatbot/end")
    \/ \E t \in Threads : QuotaCommit(t)
    \/ \E t \in Threads : \E r \in ChatRequests :
           ChatbotRead(t, r.method, r.reset, r.message)
    \/ \E t \in Threads : \E api \in ApiOutcomes : ChatbotFinish(t, api)

SpecRace == Init /\ [][NextRace]_vars

---------------------------------------------------------------------------
(* Vocabulary of the properties, stated on the stored rows and the raw inputs *)

UserIds == 1..Len(users)

\* the user that the session is logged in as, 0 for none
SessionUser == IF "user_id" \in DOMAIN session THEN session["user_id"] ELSE 0

\* user u has an AiUsage row with ai_used = 1
QuotaConsumed(u) == \E r \in ai_usage : r.user_id = u /\ r.ai_used = 1

\* the ids of the users whose stored email is the trimmed, lower-cased raw email
Registered(email_in) == {i \in UserIds : users[i].email = Lower(Strip(email_in))}

\* existing email, matching password
CredentialsMatch(f) ==
    \E i \in Registered(f.email) :
        users[i].password = <<"pbkdf2:sha256">> \o Strip(f.password)

PostOf(op) == last'.op = op /\ last'.method = "POST"

---------------------------------------------------------------------------
(* C1 *)

C1_Step ==
    \A u \in 1..Len(users') :
        /\ u > Len(users) => ~user_is_subscribed(u)'
        /\ (~user_is_subscribed(u) /\ user_is_subscribed(u)')
              => PostOf("subscribe") /\ SessionUser = u /\ SessionUser' = u
        /\ user_is_subscribed(u) => user_is_subscribed(u)'

\* C1: for every user, user_is_subscribed is false right after signup, becomes
\* true only in a POST /subscribe of a session logged in as that user, and once
\* true stays true over every later request of any user.
C1_SubscriptionMonotone == [][C1_Step]_vars

\* user 1 is subscribed and user 2 has since ended and locked the free chat
C1_Witness ==
    /\ user_is_subscribed(1)
    /\ SessionUser = 2
    /\ last.op = "chatbot/end"
    /\ QuotaConsumed(2)

---------------------------------------------------------------------------
(* C2 *)

C2_Step ==
    \A u \in 1..Len(users') :
        /\ u > Len(users) => ~QuotaConsumed(u)'
        /\ (~QuotaConsumed(u) /\ QuotaConsumed(u)')
              => last'.op \in {"finish", "chatbot/end"} /\ SessionUser = u
        /\ QuotaConsumed(u)
              => /\ RowsOf(ai_usage', u) = RowsOf(ai_usage, u)
                 /\ Cardinality(RowsOf(ai_usage', u)) = 1
                 /\ \A r \in RowsOf(ai_usage', u) : r.ai_used = 1

\* C2: the free quota of a user is available until a quota-consuming request of
\* that user; once ai_used = 1 is stored it stays 1: no request deletes the row
\* or changes the value, and consuming again leaves the one row with ai_used = 1.
C2_QuotaTerminal == [][C2_Step]_vars

\* the quota of an already locked account was consumed a second time
C2_Witness ==
    /\ last.op = "finish"
    /\ <<"ai_usage", "update">> \in last.db
    /\ QuotaConsumed(SessionUser)

---------------------------------------------------------------------------
(* C3 *)

C3_LockedPost == PostOf("chatbot") /\ SessionUser # 0 /\ QuotaConsumed(SessionUser)

C3_NoticeAppended ==
    session'["ai_history"] =
        Append(SessionGet(session, "ai_history", <<>>), Entry("assistant", LockNotice))

\* C3 as stated: every POST /chatbot of a locked user makes no API call, appends
\* exactly one lock notice to ai_history and leaves the account locked.
C3_Original ==
    [][C3_LockedPost =>
          /\ last'.api = <<>>
          /\ C3_NoticeAppended
          /\ QuotaConsumed(SessionUser)']_vars

\* C3, amended: a POST /chatbot of a locked user makes no API call and leaves the
\* account locked; without reset=1 it appends exactly one lock notice (and no user
\* entry) to ai_history, with reset=1 it empties ai_history and appends nothing.
C3_LockedTurnSilent ==
    [][C3_LockedPost =>
          /\ last'.api = <<>>
          /\ IF last'.in.reset = "1"
             THEN session'["ai_history"] = <<>>
             ELSE C3_NoticeAppended
          /\ QuotaConsumed(SessionUser)']_vars

\* a locked user posted a message and got the lock notice
C3_Witness ==
    /\ last.op = "chatbot" /\ last.method = "POST"
    /\ last.in.reset = "" /\ Strip(last.in.message) # <<>>
    /\ QuotaConsumed(SessionUser)
    /\ session["ai_history"] # <<>>
    /\ session["ai_history"][Len(session["ai_history"])] = Entry("assistant", LockNotice)

---------------------------------------------------------------------------
(* C4 *)

\* C4: POST /chatbot/end of a logged-in user, from any state, ends with exactly
\* one AiUsage row of that user, ai_used = 1, and an empty ai_history.
C4_EndAndLock ==
    [][(PostOf("chatbot/end") /\ SessionUser # 0) =>
          /\ Cardinality(RowsOf(ai_usage', SessionUser)) = 1
          /\ \A r \in RowsOf(ai_usage', SessionUser) : r.ai_used = 1
          /\ SessionUser' = SessionUser
          /\ session'["ai_history"] = <<>>]_vars

\* end-and-lock of an account that was locked before (through /finish, which
\* leaves the history in place)
C4_Witness ==
    /\ last.op = "chatbot/end"
    /\ <<"ai_usage", "update">> \in last.db
    /\ session["ai_history"] = <<>>
    /\ QuotaConsumed(SessionUser)

---------------------------------------------------------------------------
(* C5 *)

C5_WritesAiUsage ==
    \/ ai_usage' # ai_usage
    \/ <<"ai_usage", "insert">> \in last'.db
    \/ <<"ai_usage", "update">> \in last'.db

\* C5 as stated: only POST /chatbot/end writes the AiUsage table.
C5_Original == [][C5_WritesAiUsage => last'.op = "chatbot/end"]_vars

\* C5, amended: the only requests that write the AiUsage table are POST
\* /chatbot/end and GET /finish; no other route creates or changes a row.
C5_OnlyEndOrFinish == [][C5_WritesAiUsage => last'.op \in {"chatbot/end", "finish"}]_vars

\* GET /finish created the AiUsage row of the user
C5_Witness ==
    /\ last.op = "finish"
    /\ <<"ai_usage", "insert">> \in last.db
    /\ QuotaConsumed(SessionUser)

---------------------------------------------------------------------------
(* C6 *)

\* C6: a login with an existing email and its matching password leaves the
\* session with user_id and user of the matched User and with ai_history empty,
\* whatever ai_history the session held before.
C6_LoginFreshHistory ==
    [][(PostOf("login") /\ CredentialsMatch(last'.in)) =>
          /\ last'.out = "redirect:/dashboard"
          /\ \E i \in Registered(last'.in.email) :
                /\ session'["user_id"] = users[i].id
                /\ session'["user"] = users[i].name
          /\ session'["ai_history"] = <<>>]_vars

\* user 2 has just logged in on a session that still carries the ai_used flag
\* another user's end-and-lock left there (that user never logged out)
C6_Witness ==
    /\ last.op = "login" /\ last.out = "redirect:/dashboard"
    /\ SessionUser = 2
    /\ session["ai_history"] = <<>>
    /\ "ai_used" \in DOMAIN session
    /\ ~QuotaConsumed(2)

---------------------------------------------------------------------------
(* C7 *)

C7_DuplicateSignup == PostOf("signup") /\ Registered(last'.in.email) # {}

\* C7 as stated: a signup whose trimmed, lower-cased email is that of an existing
\* User gets the duplicate-email page, adds and changes no User, sets no session.
C7_Original ==
    [][C7_DuplicateSignup =>
          /\ last'.out = "page:signup_duplicate"
          /\ users' = users
          /\ session' = session]_vars

\* C7, amended: such a signup adds and changes no User and sets no session; it
\* gets the duplicate-email page when name and password are non-empty after
\* trimming, and the validation page when one of them is empty.
C7_DuplicateEmailRejected ==
    [][C7_DuplicateSignup =>
          /\ last'.out = IF Strip(last'.in.name) = <<>> \/ Strip(last'.in.password) = <<>>
                         THEN "page:signup_required"
                         ELSE "page:signup_duplicate"
          /\ users' = users
          /\ session' = session]_vars

\* the address of user "a" was offered again in upper case and padded
C7_Witness ==
    /\ last.op = "signup" /\ last.method = "POST"
    /\ last.in.email = <<" ", "A">>
    /\ last.out = "page:signup_duplicate"
    /\ \E i \in UserIds : users[i].email = <<"a">>

---------------------------------------------------------------------------
(* C8 *)

C8_FieldMissing ==
    \/ Strip(last'.in.name) = <<>>
    \/ Strip(last'.in.email) = <<>>
    \/ Strip(last'.in.password) = <<>>

\* C8: a POST /signup with name, email or password empty after trimming gets the
\* validation page, neither reads nor writes the User table and creates no User.
C8_EmptyFieldRejected ==
    [][(PostOf("signup") /\ C8_FieldMissing) =>
          /\ last'.out = "page:signup_required"
          /\ last'.db = {}
          /\ users' = users]_vars

\* a signup without a password, for an address nobody holds, was turned down
C8_Witness ==
    /\ last.op = "signup" /\ last.method = "POST"
    /\ last.in.password = <<>>
    /\ Registered(last.in.email) = {}
    /\ last.out = "page:signup_required"

---------------------------------------------------------------------------
(* C9 *)

C9_Step ==
    /\ (PostOf("login") /\ ~CredentialsMatch(last'.in)) => session' = session
    /\ (/\ last.op = "login" /\ last.method = "POST" /\ ~CredentialsMatch(last.in)
        /\ "user_id" \notin DOMAIN session
        /\ last'.op = "dashboard")
          => last'.out = "redirect:/login" /\ session' = session

\* C9: a POST /login that fails (unknown email, or known email and wrong
\* password) leaves the session exactly as it was; after one on an
\* unauthenticated session, GET /dashboard redirects to /login.
C9_FailedLoginKeepsSession == [][C9_Step]_vars

\* the right email with a wrong password was turned down, nobody is logged in
C9_Witness ==
    /\ last.op = "login" /\ last.method = "POST"
    /\ last.in.password = <<"w">>
    /\ Registered(last.in.email) # {}
    /\ last.out = "page:login_invalid"
    /\ session = EmptySession

---------------------------------------------------------------------------
(* C10 *)

\* C10: a failed POST /login answers with one and the same page, makes the same
\* store accesses and leaves session and tables alone, whether the email has no
\* User or has one and the password is wrong.
C10_FailedLoginUniform ==
    [][(PostOf("login") /\ ~CredentialsMatch(last'.in)) =>
          /\ last' = Request("login", "POST", last'.in, "page:login_invalid", <<>>,
                             {<<"users", "read">>})
          /\ UNCHANGED <<users, subscriptions, ai_usage, user_profiles, session>>]_vars

\* an email nobody holds was turned down while another email is registered
C10_Witness ==
    /\ last.op = "login" /\ last.method = "POST"
    /\ Strip(last.in.email) # <<>>
    /\ Registered(last.in.email) = {}
    /\ UserIds # {}
    /\ last.out = "page:login_invalid"

---------------------------------------------------------------------------
(* C11 *)

SessionKeys ==
    {"user", "user_id", "ai_history", "mock_ai_history", "ai_used", "first_time_login"}

C11_Step ==
    last'.op = "logout" =>
        /\ \A k \in SessionKeys : k \notin DOMAIN session'
        /\ DOMAIN session' = {}
        /\ last'.out = "redirect:/"
        /\ last'.db = {}
        /\ UNCHANGED <<users, subscriptions, ai_usage, user_profiles, mock_interviews>>

\* C11: a GET /logout, from any session (logged in or anonymous, any histories
\* and flags), leaves the session without any key -- no user, user_id,
\* ai_history, mock_ai_history, ai_used or first_time_login --, answers with the
\* redirect to / and changes no stored row.
C11_LogoutClearsSession == [][C11_Step]_vars

\* A logout of a browser that once held a mock-interview history and a consumed
\* quota: the rows are still there, the session is empty.
C11_Witness ==
    /\ last.op = "logout"
    /\ session = EmptySession
    /\ subscriptions # {}
    /\ ai_usage # {}

---------------------------------------------------------------------------
(* C12 *)

\* the Subscription rows of user u
SubscriptionsOf(table, u) == {r \in table : r.user_id = u}

C12_Step ==
    (PostOf("subscribe") /\ SessionUser # 0) =>
        /\ Cardinality(SubscriptionsOf(subscriptions', SessionUser)) = 1
        /\ \A r \in SubscriptionsOf(subscriptions', SessionUser) : r.active
        /\ user_is_subscribed(SessionUser)'
        /\ user_is_subscribed(SessionUser) => subscriptions' = subscriptions
        /\ \A u \in UserIds \ {SessionUser} :
               SubscriptionsOf(subscriptions', u) = SubscriptionsOf(subscriptions, u)

\* C12: POST /subscribe is idempotent when requests are handled one at a time:
\* after every such call by a logged-in user there is exactly one Subscription
\* row for that user, it has active = true, user_is_subscribed is true, a call
\* by an already subscribed user leaves the table as it was, and no call
\* touches the rows of another user.
C12_SubscribeIdempotent == [][C12_Step]_vars

\* A repeated call: the POST found the user's row and there is still one row.
C12_Witness ==
    /\ last.op = "subscribe" /\ last.method = "POST"
    /\ <<"subscriptions", "update">> \in last.db
    /\ SessionUser # 0
    /\ Cardinality(SubscriptionsOf(subscriptions, SessionUser)) = 1

---------------------------------------------------------------------------
(* C13 *)

LoginRequiredRoutes == {"subscribe", "dashboard", "chatbot", "finish", "chatbot/end"}

C13_Step ==
    (last'.op \in LoginRequiredRoutes /\ "user_id" \notin DOMAIN session) =>
        /\ last'.out = "redirect:/login"
        /\ last'.db = {}
        /\ last'.api = <<>>
        /\ UNCHANGED <<users, subscriptions, ai_usage, user_profiles, session>>

\* C13: a request whose session holds no user_id, sent to /subscribe (GET or
\* POST), /dashboard, /chatbot, /finish or /chatbot/end, is answered by the
\* redirect to /login, reads and writes no table, calls no API, and leaves every
\* Subscription, AiUsage and UserProfile row and the session as they were.
C13_AnonymousRedirected == [][C13_Step]_vars

\* An anonymous GET /finish after some user has consumed the quota and subscribed.
C13_Witness ==
    /\ last.op = "finish"
    /\ last.out = "redirect:/login"
    /\ "user_id" \notin DOMAIN session
    /\ ai_usage # {}
    /\ subscriptions # {}
    /\ user_profiles # {}

---------------------------------------------------------------------------
(* C14 *)

PremiumRoutes == {"mentorship", "mock-interviews", "mock-interviews/ai", "global-match"}

\* user u has a Subscription row with active = true
Entitled(u) == \E r \in subscriptions : r.user_id = u /\ r.active

C14_Step ==
    (last'.op \in PremiumRoutes /\ ~Entitled(SessionUser)) =>
        /\ last'.out = "page:" \o last'.op \o ":locked"
        /\ <<"mentors", "read">> \notin last'.db
        /\ <<"mock_interviews", "read">> \notin last'.db
        /\ <<"mock_interviews", "insert">> \notin last'.db
        /\ mock_interviews' = mock_interviews
        /\ last'.api = <<>>
        /\ session' = session

\* C14: a request to /mentorship, /mock-interviews (GET or POST),
\* /mock-interviews/ai or /global-match from an anonymous session or from a user
\* without an active Subscription gets the fixed locked view: it reads no Mentor
\* and no MockInterview row, inserts no MockInterview, calls no external API and
\* leaves the session as it was.
C14_LockedPremium == [][C14_Step]_vars

\* A logged-in user without a subscription posts a titled mock interview and
\* gets the locked view.
C14_Witness ==
    /\ last.op = "mock-interviews" /\ last.method = "POST"
    /\ Strip(last.in.title) # <<>>
    /\ last.out = "page:mock-interviews:locked"
    /\ SessionUser # 0
    /\ ~Entitled(SessionUser)
    /\ mock_interviews = SeededMockInterviews

---------------------------------------------------------------------------
(* C15 *)

\* the ai_history a session shows
HistoryOf(s) == IF "ai_history" \in DOMAIN s THEN s["ai_history"] ELSE <<>>

\* a POST /chatbot by a logged-in user whose quota is not consumed
UnlockedPost == PostOf("chatbot") /\ SessionUser # 0 /\ ~QuotaConsumed(SessionUser)

C15_Turn ==
    LET h == HistoryOf(session)
        h2 == HistoryOf(session')
        msg == Strip(last'.in.message)
        asked == [role |-> "user", content |-> msg]
    IN  IF msg # <<>>
        THEN /\ Len(h2) = Len(h) + 2
             /\ SubSeq(h2, 1, Len(h)) = h
             /\ h2[Len(h) + 1] = asked
             /\ h2[Len(h) + 2].role = "assistant"
             /\ Len(last'.api) <= 1
             /\ \/ /\ last'.api = << <<[role |-> "system", content |-> AI_SYSTEM_PROMPT]>>
                                      \o h \o <<asked>> >>
                   /\ h2[Len(h) + 2].content
                          \in {ApiReplyText, <<"AI error: ">> \o ApiErrorText}
                \/ /\ last'.api = <<>>
                   /\ h2[Len(h) + 2].content = NotConfiguredReply
        ELSE /\ h2 = h
             /\ last'.api = <<>>

C15_Step == (UnlockedPost /\ last'.in.reset # "1") => C15_Turn

C15_OriginalStep == UnlockedPost => C15_Turn

\* C15 as stated: every POST /chatbot by an unlocked user with a non-empty
\* trimmed message appends the user entry and one assistant entry (reset=1 or
\* not), and with an empty message leaves the history unchanged.
C15_Original == [][C15_OriginalStep]_vars

\* C15: a POST /chatbot without reset=1 by an unlocked user with a non-empty
\* trimmed message appends exactly two entries to ai_history, the user entry
\* followed by one assistant entry, and calls the completion API at most once,
\* with the system prompt followed by the whole history including the new user
\* entry; the assistant entry is the returned text or the 'AI error' text when
\* the call was made, and the fixed not-configured text when no call was made.
\* With an empty message the history is unchanged and no call is made.
C15_UnlockedTurn == [][C15_Step]_vars

\* The second turn of a chat: the API got the prompt, the first turn and the new
\* question.
C15_Witness ==
    /\ last.op = "chatbot" /\ last.method = "POST"
    /\ last.in.reset # "1"
    /\ ~QuotaConsumed(SessionUser)
    /\ Len(HistoryOf(session)) = 4
    /\ Len(last.api) = 1
    /\ Len(last.api[1]) = 4

---------------------------------------------------------------------------
(* C16 *)

C16_Step ==
    last'.op = "chatbot" =>
        /\ ai_usage' = ai_usage
        /\ <<"ai_usage", "insert">> \notin last'.db
        /\ <<"ai_usage", "update">> \notin last'.db
        /\ \A u \in UserIds : ~QuotaConsumed(u) => ~QuotaConsumed(u)'

\* C16: a GET or POST /chatbot never changes the AiUsage table, whatever its
\* outcome (reply, API exception, API key not configured, lock notice, empty
\* message, reset): a user who was unlocked before the request is unlocked after
\* it.
C16_ChatbotKeepsQuota == [][C16_Step]_vars

\* Two turns, the second answered by the not-configured text or an 'AI error'
\* text, and the user is still unlocked.
C16_Witness ==
    /\ last.op = "chatbot" /\ last.method = "POST"
    /\ Len(HistoryOf(session)) = 4
    /\ HistoryOf(session)[4].content # ApiReplyText
    /\ HistoryOf(session)[4].content # LockNotice
    /\ ai_usage = {}

---------------------------------------------------------------------------
(* C17 *)

C17_Step ==
    (last'.op = "chatbot" /\ last'.in.reset = "1" /\ SessionUser # 0) =>
        /\ "ai_history" \in DOMAIN session'
        /\ session'["ai_history"] = <<>>
        /\ \A k \in DOMAIN session \ {"ai_history"} :
               k \in DOMAIN session' /\ session'[k] = session[k]
        /\ ai_usage' = ai_usage
        /\ last'.api = <<>>
        /\ last'.out = "redirect:/chatbot"

\* C17: a request to /chatbot with reset=1 by a logged-in user, locked or
\* unlocked, GET or POST, sets the session's ai_history to empty, leaves the
\* other session keys and the AiUsage table unchanged and calls no API: a
\* message posted with it is neither appended nor sent.
C17_ResetClearsHistory == [][C17_Step]_vars

\* An unlocked user in the middle of a chat posts a message with reset=1.
C17_Witness ==
    /\ last.op = "chatbot" /\ last.method = "POST"
    /\ last.in.reset = "1"
    /\ Strip(last.in.message) # <<>>
    /\ SessionUser # 0
    /\ ~QuotaConsumed(SessionUser)
    /\ HistoryOf(session) = <<>>

---------------------------------------------------------------------------
(* C18 *)

\* the request ended in an exception that no handler caught (HTTP 500)
Unhandled(req) == req.out = "error:UnboundLocalError"

\* C18 as stated: every request, for every input and every reachable store
\* state (requests handled one at a time), ends with a normal page or a
\* redirect and never with an unhandled exception, POST /forgot-password with an
\* email that has no User included.
C18_Original == ~Unhandled(last)

\* POST /forgot-password with an address nobody signed up with.
C18_Witness ==
    /\ last.op = "forgot-password" /\ last.method = "POST"
    /\ Registered(last.in.email) = {}
    /\ Unhandled(last)

---------------------------------------------------------------------------
(* C19 *)

\* C19: the store session a request acquired is released by the end of that
\* request, on every exit path (normal return, the redirect of POST
\* /mock-interviews taken before db.close(), an exception raised in the
\* handler): a session found in the registry belongs to a request that is still
\* being handled.
C19_SessionReleased == DOMAIN registry \subseteq DOMAIN inflight

\* POST /mock-interviews has inserted a row and redirected without db.close().
C19_Witness ==
    /\ last.op = "mock-interviews" /\ last.method = "POST"
    /\ last.out = "redirect:/mock-interviews"
    /\ <<"mock_interviews", "insert">> \in last.db
    /\ Len(mock_interviews) > Len(SeededMockInterviews)
    /\ ReturnsUnclosed(last)
    /\ registry = EmptyRegistry

---------------------------------------------------------------------------
(* C20 *)

\* no two rows of the table belong to the same user
OneRowPerUser(table) == \A r1, r2 \in table : r1.user_id = r2.user_id => r1 = r2

\* C20: in every reachable state, the states between the read step and the
\* write step of concurrent requests included, there is at most one User per
\* lower-cased, trimmed email, at most one Subscription row per user_id and at
\* most one AiUsage row per user_id.
C20_Unique ==
    /\ \A i, j \in UserIds :
           Lower(Strip(users[i].email)) = Lower(Strip(users[j].email)) => i = j
    /\ OneRowPerUser(subscriptions)
    /\ OneRowPerUser(ai_usage)

\* Two POST /subscribe of the same user both read "no row"; the first commit has
\* stored the row, the second was refused by the store.
C20_Witness ==
    /\ last.op = "subscribe"
    /\ last.out = "error:IntegrityError"
    /\ Cardinality(subscriptions) = 1
    /\ Len(users) = 2
    /\ ai_usage # {}

---------------------------------------------------------------------------
(* C21 *)

\* a POST /subscribe that got past the login check
AuthenticatedSubscribe(req) ==
    req.op = "subscribe" /\ req.method = "POST" /\ req.db # {}

\* C21 as stated: POST /subscribe always succeeds for an authenticated user,
\* also when two such requests of a user without a Subscription row interleave:
\* each ends with the redirect to /dashboard and none in an error.
C21_Original == AuthenticatedSubscribe(last) => last.out = "redirect:/dashboard"

\* Both requests read "no row"; the one that committed second ended in the
\* IntegrityError of the store, the row of the first is stored.
C21_Witness ==
    /\ AuthenticatedSubscribe(last)
    /\ last.out = "error:IntegrityError"
    /\ SessionUser # 0
    /\ Cardinality(SubscriptionsOf(subscriptions, SessionUser)) = 1
    /\ inflight = NothingInFlight

---------------------------------------------------------------------------
(* C22 *)

\* thread t completes a /chatbot request in this step
ChatbotCompletes(t) ==
    /\ t \in DOMAIN inflight
    /\ inflight[t].op = "chatbot"
    /\ t \notin DOMAIN inflight'

\* the request held by thread t is a turn: a POST without reset=1 and with a
\* message, by a request that read the account as unlocked
UnlockedTurnInFlight(t) ==
    /\ inflight[t].method = "POST"
    /\ inflight[t].reset # "1"
    /\ Strip(inflight[t].message) # <<>>
    /\ ~inflight[t].locked

C22_Step ==
    \A t \in Threads :
        ChatbotCompletes(t) /\ UnlockedTurnInFlight(t) =>
            /\ last'.op = "chatbot"
            /\ last'.out = "page:chatbot"
            /\ Len(HistoryOf(session')) = Len(HistoryOf(inflight[t].session)) + 2
            /\ HistoryOf(session')[Len(HistoryOf(session'))].role = "assistant"
            /\ \/ Len(last'.api) = 1
               \/ HistoryOf(session')[Len(HistoryOf(session'))].content
                      = NotConfiguredReply

\* C22: the quota check and the quota write are not atomic.  A /chatbot request
\* that read the account as unlocked serves the turn, whatever has been
\* committed to ai_usage since: it calls the completion API (when a key is set)
\* and appends the reply to the history it came with, also when /chatbot/end
\* of the same user has locked the account in between.
C22_StaleLockServed == [][C22_Step]_vars

\* the turn was served with an API call and the reply is in the history, while
\* the account is locked (the chatbot handler writes no ai_usage row, so the
\* lock was committed before the call)
C22_Witness ==
    /\ last.op = "chatbot"
    /\ last.out = "page:chatbot"
    /\ Len(last.api) = 1
    /\ SessionUser # 0
    /\ QuotaConsumed(SessionUser)
    /\ Len(HistoryOf(session)) = 2
    /\ HistoryOf(session)[2] = Entry("assistant", ApiReplyText)
    /\ inflight = NothingInFlight

---------------------------------------------------------------------------
(* C23 *)

ProfilesOf(table, u) == {p \in table : p.user_id = u}

\* the last request was a /dashboard form or remove_skill request
FormSent(req) == req.op = "dashboard" /\ req.in # NoInput

\* C23: in every reachable state every stored UserProfile has self_rating in
\* 0..5: it is 0 at lazy creation and stays within 0..5 after any dashboard form
\* submission, whatever integer text is submitted as self_rating.
C23_RatingInRange == \A p \in user_profiles : p.self_rating \in 0..5

\* a subscribed user has submitted the skills form with self_rating 7 and was
\* redirected back to the skills tab
C23_Witness ==
    /\ FormSent(last)
    /\ last.method = "POST"
    /\ last.in.tab = "skills"
    /\ last.in.self_rating = <<"7">>
    /\ last.out = "redirect:/dashboard?tab=skills"
    /\ SessionUser # 0
    /\ Entitled(SessionUser)
    /\ ProfilesOf(user_profiles, SessionUser) # {}

---------------------------------------------------------------------------
(* C24 *)

\* the skills of a stored text, as the dashboard page lists them
SkillsOf(p) == {SkillsList(p.skills_text)[i] : i \in 1..Len(SkillsList(p.skills_text))}

C24_OriginalStep ==
    (FormSent(last') /\ SessionUser # 0 /\ Entitled(SessionUser)
     /\ last'.out = "redirect:/dashboard?tab=skills") =>
        \A p \in ProfilesOf(user_profiles', SessionUser) :
            /\ (last'.method = "POST" /\ last'.in.tab = "skills") =>
                   /\ p.skills_text = Strip(last'.in.skills_text)
                   /\ p.target_roles = Strip(last'.in.target_roles)
            /\ (last'.method = "POST" /\ last'.in.tab = "skills_add"
                 /\ Strip(last'.in.new_skill) # <<>>) =>
                   Strip(last'.in.new_skill) \in SkillsOf(p)
            /\ (last'.method = "GET" /\ last'.in.remove_skill # <<>>) =>
                   \A skill \in SkillsOf(p) :
                       Lower(skill) # Lower(Strip(last'.in.remove_skill))

\* C24 as stated: when a subscribed user submits the skills form, adds a skill
\* or removes one, the change is committed to that user's stored UserProfile and
\* is what the next GET /dashboard reads back.
C24_Original == [][C24_OriginalStep]_vars

\* a subscribed user has submitted the skills form with skills "a" and roles
\* "c" and was redirected, and the stored profile holds neither
C24_Witness ==
    /\ FormSent(last)
    /\ last.method = "POST"
    /\ last.in.tab = "skills"
    /\ Strip(last.in.skills_text) = <<"a">>
    /\ last.out = "redirect:/dashboard?tab=skills"
    /\ SessionUser # 0
    /\ Entitled(SessionUser)
    /\ \E p \in ProfilesOf(user_profiles, SessionUser) :
           p.skills_text # <<"a">> /\ p.target_roles # <<"c">>

---------------------------------------------------------------------------
(* C25 *)

C25_Step ==
    (last'.op = "dashboard" /\ SessionUser # 0 /\ ~Entitled(SessionUser)) =>
        /\ \A p \in ProfilesOf(user_profiles, SessionUser) :
               \E q \in ProfilesOf(user_profiles', SessionUser) :
                   /\ q.skills_text = p.skills_text
                   /\ q.target_roles = p.target_roles
                   /\ q.self_rating = p.self_rating
                   /\ (q # p) => /\ last'.in # NoInput
                                 /\ last'.method = "POST"
                                 /\ last'.in.tab = "resume"
        /\ Cardinality(ProfilesOf(user_profiles', SessionUser)) = 1
        /\ \A u \in UserIds \ {SessionUser} :
               ProfilesOf(user_profiles', u) = ProfilesOf(user_profiles, u)

\* C25: for a user without an active Subscription no /dashboard request (the
\* skills form, adding a skill, remove_skill or a plain visit) changes the stored
\* skills_text, target_roles or self_rating of the profile; the stored profile
\* changes only by POST tab=resume, and then only in resume_link and notes.
C25_UnsubscribedSkillsFrozen == [][C25_Step]_vars

\* an unsubscribed user whose resume link is stored has submitted the skills
\* form and was sent back; skills, roles and rating are as they were created
C25_Witness ==
    /\ FormSent(last)
    /\ last.method = "POST"
    /\ last.in.tab = "skills"
    /\ last.in.self_rating = <<"7">>
    /\ SessionUser # 0
    /\ ~Entitled(SessionUser)
    /\ \E p \in ProfilesOf(user_profiles, SessionUser) :
           /\ p.resume_link = <<"l">>
           /\ p.skills_text = <<>>
           /\ p.target_roles = <<>>
           /\ p.self_rating = 0

---------------------------------------------------------------------------
(* C26 *)

\* the responses whose page carries the name of a Mentor row
MentorPages == {"page:mentorship", "page:book_mentor", "page:booking_sent"}

ShowsMentor(req) == <<"mentors", "read">> \in req.db /\ req.out \in MentorPages

\* C26 as stated: data of a Mentor record is rendered only in responses to users
\* with an active Subscription; over all routes, GET and POST /book-mentor/<id>
\* included, a request from an anonymous or unsubscribed session never reads and
\* shows a Mentor row.
C26_Original == ShowsMentor(last) => (SessionUser # 0 /\ Entitled(SessionUser))

\* an anonymous visitor has opened the booking page of mentor 1
C26_Witness ==
    /\ last.op = "book-mentor"
    /\ last.method = "GET"
    /\ last.in.mentor_id \in mentors
    /\ last.out = "page:book_mentor"
    /\ SessionUser = 0
    /\ subscriptions = {}

---------------------------------------------------------------------------
(* C27 *)

UsageOf(table, u) == {r \in table : r.user_id = u}

QuotaWriters == {"finish", "chatbot/end"}

C27_Step ==
    /\ (PostOf("subscribe") /\ SessionUser # 0) =>
           /\ ai_usage' = ai_usage
           /\ users' = users
           /\ user_profiles' = user_profiles
           /\ QuotaConsumed(SessionUser) => QuotaConsumed(SessionUser)'
           /\ \A u \in UserIds \ {SessionUser} :
                  SubscriptionsOf(subscriptions', u) = SubscriptionsOf(subscriptions, u)
    /\ (last'.op \in QuotaWriters /\ SessionUser # 0) =>
           /\ subscriptions' = subscriptions
           /\ users' = users
           /\ user_profiles' = user_profiles
           /\ \A u \in UserIds \ {SessionUser} :
                  UsageOf(ai_usage', u) = UsageOf(ai_usage, u)

\* C27: entitlement writes touch only the acting user's own row of one table.
\* POST /subscribe by user A changes nothing but A's Subscription row (no AiUsage
\* row, so a locked account stays locked after subscribing); /chatbot/end and
\* /finish by user A change nothing but A's AiUsage row (no Subscription row);
\* the rows of every other user are unchanged.
C27_OwnRowOnly == [][C27_Step]_vars

\* a locked user has just subscribed and is still locked, while another user
\* holds a usage row of their own
C27_Witness ==
    /\ last.op = "subscribe"
    /\ last.method = "POST"
    /\ last.out = "redirect:/dashboard"
    /\ SessionUser # 0
    /\ Entitled(SessionUser)
    /\ QuotaConsumed(SessionUser)
    /\ \E u \in UserIds \ {SessionUser} : UsageOf(ai_usage, u) # {}

---------------------------------------------------------------------------
(* C28 *)

\* every user entry is directly followed by an assistant entry
Paired(history) ==
    \A i \in 1..Len(history) :
        history[i].role = "user" =>
            i < Len(history) /\ history[i + 1].role = "assistant"

IsPrefix(a, b) == Len(a) <= Len(b) /\ SubSeq(b, 1, Len(a)) = a

\* the requests that empty the history: reset, end-and-lock, login, logout
Empties(req) ==
    \/ req.op \in {"chatbot/end", "login", "logout"}
    \/ req.op = "chatbot" /\ req.in.reset = "1"

C28_Step ==
    /\ last'.op = "chatbot" => Paired(HistoryOf(session'))
    /\ \/ IsPrefix(HistoryOf(session), HistoryOf(session'))
       \/ Empties(last') /\ HistoryOf(session') = <<>>

\* C28: after every completed /chatbot request every entry of ai_history with
\* role "user" is immediately followed by an entry with role "assistant", so the
\* history never ends with a user entry; the entries already in the history are
\* never reordered or removed except by reset, end-and-lock, login or logout,
\* which empty it.
C28_HistoryPaired == [][C28_Step]_vars

\* a history of two answered questions: user, assistant, user, assistant
C28_Witness ==
    /\ last.op = "chatbot"
    /\ Len(HistoryOf(session)) = 4
    /\ HistoryOf(session)[1].role = "user"
    /\ HistoryOf(session)[2].role = "assistant"
    /\ HistoryOf(session)[3].role = "user"
    /\ HistoryOf(session)[4].role = "assistant"

---------------------------------------------------------------------------
(* C29 *)

MockHistoryOf(s) == IF "mock_ai_history" \in DOMAIN s THEN s["mock_ai_history"] ELSE <<>>

LoggedIn(req) == req.op = "login" /\ req.method = "POST" /\ req.out = "redirect:/dashboard"

C29_OriginalStep ==
    LoggedIn(last') =>
        /\ HistoryOf(session') = <<>>
        /\ MockHistoryOf(session') = <<>>

\* C29 as stated: after a successful login every conversation history held in
\* the session is empty, mock_ai_history as well as ai_history, so a user who
\* logs in on a session where a previous user did not log out never holds that
\* user's mock-interview transcript.
C29_Original == [][C29_OriginalStep]_vars

\* a user without the Student Pass has logged in and the session still holds a
\* mock-interview transcript, which only a subscribed user can have written
C29_Witness ==
    /\ LoggedIn(last)
    /\ SessionUser # 0
    /\ ~Entitled(SessionUser)
    /\ Len(MockHistoryOf(session)) = 2
    /\ MockHistoryOf(session)[1].role = "user"
    /\ HistoryOf(session) = <<>>

---------------------------------------------------------------------------
(* C30 *)

\* the last entry of the mock-interview history of session s
LastMockEntry(s) == MockHistoryOf(s)[Len(MockHistoryOf(s))]

C30_Step ==
    last'.op = "mock-interviews/ai" =>
        /\ ai_usage' = ai_usage
        /\ \A access \in last'.db : access[1] # "ai_usage"
        /\ HistoryOf(session') = HistoryOf(session)
        /\ last'.out = "page:mock-interviews/ai:locked" <=> ~Entitled(SessionUser)
        /\ (Entitled(SessionUser) /\ last'.method = "POST"
            /\ Strip(last'.in.message) # <<>>) =>
               /\ Len(MockHistoryOf(session')) = Len(MockHistoryOf(session)) + 2
               /\ LastMockEntry(session').role = "assistant"
               /\ \/ Len(last'.api) = 1
                  \/ LastMockEntry(session').content = MockNotConfiguredReply

\* C30: the mock-interview AI turn is gated only by the subscription flag and
\* is independent of the free-chat quota: it never reads or writes AiUsage,
\* never changes ai_history, and answers the turn of every subscribed user,
\* locked or not, with a call of the completion API (when a key is set).
C30_MockTurnUnmetered == [][C30_Step]_vars

\* a subscribed user whose account is locked got a mock-interview turn answered
\* by the completion API
C30_Witness ==
    /\ last.op = "mock-interviews/ai"
    /\ last.method = "POST"
    /\ Len(last.api) = 1
    /\ SessionUser # 0
    /\ Entitled(SessionUser)
    /\ QuotaConsumed(SessionUser)
    /\ Len(MockHistoryOf(session)) = 2
    /\ LastMockEntry(session) = Entry("assistant", ApiReplyText)

====
